---- MODULE Spec2Model ----
(***************************************************************************)
(* The rule engine of the card game: the state transitions of GameState    *)
(* (deck, players, turn, pending block, pending exchange, log record).     *)
(* Every engine function is a pure function from a GameState value to a    *)
(* GameState value; the caller stores the returned value.  The engine      *)
(* functions are operators on a gameState record, the stored blob is the   *)
(* variable gameState, and each action stores what one call returns.       *)
(* The engine modelled is the complete one: applyAction with the Exchange   *)
(* case and the treasury, handleChallenge, handleCounterAction,             *)
(* resolveBlock and completeExchange.  The createDeck, initializeGameState  *)
(* and applyAction of lib/game/gameRules.ts, which differ from it, are      *)
(* modelled beside it under names ending in GameRules.                      *)
(***************************************************************************)
EXTENDS Integers, Sequences, FiniteSets, TLC

VARIABLES
    gameState,  \* the GameState blob the caller holds and persists
    settings,   \* the GameSettings of the lobby (expansions)
    nOps,       \* number of engine calls made so far (bounds the run)
    hist,       \* history: the last engine call, the players before the action it answers,
                \* and the number of cards the pending exchange drew
    ret         \* value returned by the last query (canPerformAction, checkGameOver)

vars == <<gameState, settings, nOps, hist, ret>>

-----------------------------------------------------------------------------
(* Bounds of the model *)

NumPlayers == 2     \* players seated in the match
MaxOps == 2         \* engine calls per run, every ruleset
MaxOpsBase == 3     \* engine calls per run, base game
RandDen == 2        \* Math.random() returns one of 0/RandDen .. (RandDen-1)/RandDen
MaxCoins == 11      \* largest coin balance drawn as an input of the queries
MaxOpsLong == 4     \* engine calls per run, runs of applyAction alone
MaxOpsTreasury == 18 \* engine calls per run, runs that draw on the treasury

-----------------------------------------------------------------------------
(* JavaScript values *)

Undefined == "undefined"            \* an absent optional string (targetId, allegiance, a field)
Null == [null |-> TRUE]             \* null / undefined where an object is expected

PlayerIdx == 0 .. (NumPlayers - 1)
IdOf(i) == "p" \o ToString(i)       \* the id string of the player seated at index i
PlayerIds == {IdOf(i) : i \in PlayerIdx}
UnknownId == "nobody"               \* an id no player has
Ids == PlayerIds \cup {UnknownId}

CardTypes == {"duke", "assassin", "captain", "ambassador", "contessa", "inquisitor"}

\* enum ActionType
Income == "income"
ForeignAid == "foreign_aid"
Coup == "coup"
Tax == "tax"
Assassinate == "assassinate"
Steal == "steal"
Exchange == "exchange"
Question == "question"
Convert == "convert"
Embezzle == "embezzle"
Interrogate == "interrogate"
ActionType == {Income, ForeignAid, Coup, Tax, Assassinate, Steal, Exchange,
               Question, Convert, Embezzle, Interrogate}

\* blockableActions: the cards that block an action ([] when the key is absent)
blockableActions(action) ==
    CASE action = ForeignAid -> {"duke"}
      [] action = Assassinate -> {"contessa"}
      [] action = Steal -> {"ambassador", "captain"}
      [] OTHER -> {}

\* characterActions: the characters an action claims ([] when the key is absent)
characterActions(action) ==
    CASE action = Tax -> {"duke"}
      [] action = Assassinate -> {"assassin"}
      [] action = Steal -> {"captain"}
      [] action = Exchange -> {"ambassador"}
      [] action = Question -> {"inquisitor"}
      [] action = Interrogate -> {"inquisitor"}
      [] action = Embezzle -> {"duke"}
      [] OTHER -> {}

actionCosts(action) ==
    CASE action = Convert -> 1
      [] action = Assassinate -> 3
      [] action = Coup -> 7
      [] OTHER -> 0

actionRequiresTarget(action) ==
    action \in {Coup, Assassinate, Steal, Question, Interrogate, Convert}

-----------------------------------------------------------------------------
(* Arrays: hands and the players list are indexed from 0 as in the code,   *)
(* the deck is a sequence whose last element is the one pop() removes.     *)

Min(S) == CHOOSE x \in S : \A y \in S : x <= y

\* Array.prototype.findIndex: the least of the indexes whose element satisfies
\* the test (hits), or -1 when there is none
findIndex(hits) == IF hits = {} THEN -1 ELSE Min(hits)

\* validCards.filter(card => !selectedCards.includes(card)): the elements of s,
\* in order, that are not among the elements of sel
RECURSIVE filterNotIncluded(_, _)
filterNotIncluded(s, sel) ==
    IF s = <<>> THEN <<>>
    ELSE IF \E k \in DOMAIN sel : sel[k] = Head(s)
         THEN filterNotIncluded(Tail(s), sel)
         ELSE <<Head(s)>> \o filterNotIncluded(Tail(s), sel)

\* cards.filter(c => !c.revealed).map(c => c.type): the types of the unrevealed
\* cards of a hand, in slot order
unrevealedTypes(cards) ==
    (IF ~cards[0].revealed THEN <<cards[0].type>> ELSE <<>>)
    \o (IF ~cards[1].revealed THEN <<cards[1].type>> ELSE <<>>)

\* deck.pop(): the last card (undefined on an empty deck) and the rest
popCard(deck) == IF deck = <<>> THEN Undefined ELSE deck[Len(deck)]
popRest(deck) == IF deck = <<>> THEN <<>> ELSE SubSeq(deck, 1, Len(deck) - 1)

\* deck.splice(0, n): the removed head and what stays
spliceHead(deck, n) == SubSeq(deck, 1, IF Len(deck) < n THEN Len(deck) ELSE n)
spliceRest(deck, n) == SubSeq(deck, (IF Len(deck) < n THEN Len(deck) ELSE n) + 1, Len(deck))

swap(d, a, b) == [d EXCEPT ![a] = d[b], ![b] = d[a]]

\* shuffleDeck: Fisher-Yates from the last index down to 1; rnd/RandDen is the
\* value Math.random() returns, i and j are the 0-based indexes of the code
RECURSIVE fisherYates(_, _, _)
fisherYates(newDeck, i, rnd) ==
    IF i <= 0 THEN newDeck
    ELSE LET j == (rnd * (i + 1)) \div RandDen
         IN  fisherYates(swap(newDeck, i + 1, j + 1), i - 1, rnd)

shuffleDeck(deck, rnd) == fisherYates(deck, Len(deck) - 1, rnd)

Rands == 0 .. (RandDen - 1)

-----------------------------------------------------------------------------
(* createDeck, initializeGameState *)

baseDeck ==
    <<"duke", "duke", "duke", "assassin", "assassin", "assassin",
      "captain", "captain", "captain", "ambassador", "ambassador", "ambassador",
      "contessa", "contessa", "contessa">>

createDeck(st, rnd) ==
    IF st.expansions.inquisitor
    THEN [k \in DOMAIN baseDeck |->
            IF baseDeck[k] = "ambassador" THEN "inquisitor" ELSE baseDeck[k]]
    ELSE shuffleDeck(baseDeck, rnd)

\* players.map: the player at index i pops the cards at 2i and 2i+1 from the end;
\* coin[i] tells whether Math.random() > 0.5 for that player
initializeGameState(ids, st, rnd, coin) ==
    LET deck == createDeck(st, rnd)
        n == Len(deck)
        dealt(k) == IF n - k >= 1 THEN deck[n - k] ELSE Undefined
        playersWithCards == [i \in DOMAIN ids |->
            [id |-> ids[i],
             cards |-> [c \in 0 .. 1 |-> [type |-> dealt(2 * i + c), revealed |-> FALSE]],
             coins |-> 2,
             eliminated |-> FALSE,
             allegiance |-> IF st.expansions.reformation
                            THEN (IF coin[i] THEN "loyalist" ELSE "reformist")
                            ELSE Undefined]]
        taken == 2 * Cardinality(DOMAIN ids)
    IN  [status |-> "in_progress",
         deck |-> SubSeq(deck, 1, IF n >= taken THEN n - taken ELSE 0),
         currentPlayerIndex |-> 0,
         players |-> playersWithCards,
         currentAction |-> Null,
         lastAction |-> Null,
         winner |-> "null",
         treasury |-> 50,
         cardSelection |-> Null]

-----------------------------------------------------------------------------
(* The log record lastAction.  A field the code leaves out is Undefined.    *)

logRecord(type, player, target, result) ==
    [type |-> type, player |-> player, target |-> target, result |-> result,
     blocker |-> Undefined, blockingCard |-> Undefined,
     finalResult |-> Undefined, challengeResult |-> Undefined]

\* {...lastAction}: the fields of the record, none when it is null
spread(lastAction) ==
    IF lastAction = Null
    THEN logRecord(Undefined, Undefined, Undefined, Undefined)
    ELSE lastAction

\* players.findIndex(p => p.id === id)
indexOfId(players, id) == findIndex({i \in DOMAIN players : players[i].id = id})

\* loseInfluence with the elimination test inverted: the flag is set from "some
\* card is still unrevealed"
loseInfluenceInverted(state, idx) ==
    LET cardIndex == findIndex({k \in DOMAIN state.players[idx].cards :
                                   ~state.players[idx].cards[k].revealed})
    IN  IF cardIndex = -1 THEN state
        ELSE LET s1 == [state EXCEPT !.players[idx].cards[cardIndex].revealed = TRUE]
             IN  [s1 EXCEPT !.players[idx].eliminated =
                     \E k \in DOMAIN s1.players[idx].cards : ~s1.players[idx].cards[k].revealed]

\* loseInfluence revealing the last unrevealed card of the hand, not the first
loseInfluenceLastCard(state, idx) ==
    LET open == {k \in DOMAIN state.players[idx].cards :
                    ~state.players[idx].cards[k].revealed}
        cardIndex == IF open = {} THEN -1 ELSE CHOOSE k \in open : \A m \in open : m <= k
    IN  IF cardIndex = -1 THEN state
        ELSE LET s1 == [state EXCEPT !.players[idx].cards[cardIndex].revealed = TRUE]
             IN  IF \A k \in DOMAIN s1.players[idx].cards : s1.players[idx].cards[k].revealed
                 THEN [s1 EXCEPT !.players[idx].eliminated = TRUE]
                 ELSE s1

\* loseInfluence without the elimination test: the card is revealed, the flag
\* is left as it was
loseInfluenceNoFlag(state, idx) ==
    LET cardIndex == findIndex({k \in DOMAIN state.players[idx].cards :
                                   ~state.players[idx].cards[k].revealed})
    IN  IF cardIndex = -1 THEN state
        ELSE [state EXCEPT !.players[idx].cards[cardIndex].revealed = TRUE]

\* "Reveal one of the player's cards": the first unrevealed card of the player at
\* idx becomes revealed; the player is eliminated when every card is revealed
loseInfluence(state, idx) ==
    LET cardIndex == findIndex({k \in DOMAIN state.players[idx].cards :
                                   ~state.players[idx].cards[k].revealed})
    IN  IF cardIndex = -1 THEN state
        ELSE LET s1 == [state EXCEPT !.players[idx].cards[cardIndex].revealed = TRUE]
             IN  IF \A k \in DOMAIN s1.players[idx].cards : s1.players[idx].cards[k].revealed
                 THEN [s1 EXCEPT !.players[idx].eliminated = TRUE]
                 ELSE s1

\* (newState.treasury || 50) - n, not below 0
treasuryAfter(treasury, n) ==
    LET t == (IF treasury = 0 THEN 50 ELSE treasury) - n
    IN  IF t > 0 THEN t ELSE 0

\* the switch of applyAction: the effects of the action on the copy newState
actionEffects(newState, playerIndex, playerId, action, targetIndex, targetId) ==
    LET target == targetIndex # -1
    IN
    CASE action = Income ->
           [newState EXCEPT !.players[playerIndex].coins = @ + 1,
                            !.treasury = treasuryAfter(@, 1),
                            !.lastAction = logRecord(action, playerId, Undefined, "success")]
      [] action = ForeignAid ->
           [newState EXCEPT !.players[playerIndex].coins = @ + 2,
                            !.treasury = treasuryAfter(@, 2),
                            !.lastAction = logRecord(action, playerId, Undefined, "success")]
      [] action = Tax ->
           [newState EXCEPT !.players[playerIndex].coins = @ + 3,
                            !.treasury = treasuryAfter(@, 3),
                            !.lastAction = logRecord(action, playerId, Undefined, "success")]
      [] action = Exchange ->
           LET drawnCards == spliceHead(newState.deck, 2)
           IN  [newState EXCEPT
                  !.deck = spliceRest(newState.deck, 2),
                  !.cardSelection =
                      [playerId |-> playerId, reason |-> "exchange",
                       validCards |-> drawnCards
                           \o unrevealedTypes(newState.players[playerIndex].cards),
                       action |-> action],
                  !.lastAction = logRecord(action, playerId, Undefined, "success")]
      [] action = Steal /\ target ->
           LET stealAmount == IF newState.players[targetIndex].coins < 2
                              THEN newState.players[targetIndex].coins ELSE 2
               s1 == [newState EXCEPT !.players[targetIndex].coins = @ - stealAmount]
           IN  [s1 EXCEPT !.players[playerIndex].coins = @ + stealAmount,
                          !.lastAction = logRecord(action, playerId, targetId, "success")]
      [] action = Assassinate /\ target ->
           LET s1 == [newState EXCEPT !.players[playerIndex].coins = @ - actionCosts(Assassinate)]
               s2 == loseInfluence(s1, targetIndex)
           IN  [s2 EXCEPT !.lastAction = logRecord(action, playerId, targetId, "success")]
      [] action = Coup /\ target ->
           LET s1 == [newState EXCEPT !.players[playerIndex].coins = @ - actionCosts(Coup)]
               s2 == loseInfluence(s1, targetIndex)
           IN  [s2 EXCEPT !.lastAction = logRecord(action, playerId, targetId, "success")]
      [] action = Convert /\ target
            /\ newState.players[playerIndex].allegiance # Undefined ->
           LET s1 == [newState EXCEPT !.players[playerIndex].coins = @ - actionCosts(Convert)]
           IN  [s1 EXCEPT !.players[targetIndex].allegiance = s1.players[playerIndex].allegiance,
                          !.lastAction = logRecord(action, playerId, targetId, "success")]
      [] OTHER -> newState

\* the loop "Skip eliminated players, but prevent infinite loop": the pair
\* <<nextPlayerIndex, loopCount>> when the loop ends
RECURSIVE skipEliminated(_, _, _)
skipEliminated(players, nextPlayerIndex, loopCount) ==
    LET length == Cardinality(DOMAIN players)
    IN  IF players[nextPlayerIndex].eliminated /\ loopCount < length
        THEN skipEliminated(players, (nextPlayerIndex + 1) % length, loopCount + 1)
        ELSE <<nextPlayerIndex, loopCount>>

\* "Move to next player" and "Check if game is over" of applyAction
advanceTurn(newState, playerIndex) ==
    LET length == Cardinality(DOMAIN newState.players)
        found == skipEliminated(newState.players, (playerIndex + 1) % length, 0)
        s1 == IF found[2] < length
              THEN [newState EXCEPT !.currentPlayerIndex = found[1]]
              ELSE newState
        activePlayers == {i \in DOMAIN s1.players : ~s1.players[i].eliminated}
    IN  IF Cardinality(activePlayers) = 1
        THEN [s1 EXCEPT !.status = "completed",
                        !.winner = s1.players[Min(activePlayers)].id]
        ELSE s1

\* applyAction running the switch twice on the copy
applyActionTwice(state, playerId, action, targetId) ==
    LET playerIndex == indexOfId(state.players, playerId)
        targetIndex == IF targetId # Undefined THEN indexOfId(state.players, targetId) ELSE -1
        once == actionEffects(state, playerIndex, playerId, action, targetIndex, targetId)
    IN  IF playerIndex = -1 THEN state
        ELSE advanceTurn(
                 actionEffects(once, playerIndex, playerId, action, targetIndex, targetId),
                 playerIndex)

applyAction(state, playerId, action, targetId) ==
    LET playerIndex == indexOfId(state.players, playerId)
        targetIndex == IF targetId # Undefined THEN indexOfId(state.players, targetId) ELSE -1
    IN  IF playerIndex = -1 THEN state
        ELSE advanceTurn(
                 actionEffects(state, playerIndex, playerId, action, targetIndex, targetId),
                 playerIndex)

-----------------------------------------------------------------------------
(* handleChallenge, handleCounterAction, resolveBlock, completeExchange *)

\* swapClaimedCard without the draw: the claimed card is put on the deck and the
\* deck is shuffled, but no card is taken back
swapClaimedCardNoDraw(state, actionPlayerIndex, requiredCards, rnd) ==
    LET actionPlayerCardIndex ==
            findIndex({k \in DOMAIN state.players[actionPlayerIndex].cards :
                         /\ ~state.players[actionPlayerIndex].cards[k].revealed
                         /\ state.players[actionPlayerIndex].cards[k].type \in requiredCards})
    IN  IF actionPlayerCardIndex = -1 THEN state
        ELSE LET pushed == Append(state.deck,
                               state.players[actionPlayerIndex].cards[actionPlayerCardIndex].type)
             IN  [state EXCEPT !.deck = shuffleDeck(pushed, rnd)]

\* "Player who was challenged gets a new card": the claimed card goes back to
\* the deck, the deck is shuffled and its last card takes the card's slot
swapClaimedCard(state, actionPlayerIndex, requiredCards, rnd) ==
    LET actionPlayerCardIndex ==
            findIndex({k \in DOMAIN state.players[actionPlayerIndex].cards :
                         /\ ~state.players[actionPlayerIndex].cards[k].revealed
                         /\ state.players[actionPlayerIndex].cards[k].type \in requiredCards})
    IN  IF actionPlayerCardIndex = -1 THEN state
        ELSE LET pushed == Append(state.deck,
                               state.players[actionPlayerIndex].cards[actionPlayerCardIndex].type)
                 shuffled == shuffleDeck(pushed, rnd)
             IN  [state EXCEPT
                    !.deck = popRest(shuffled),
                    !.players[actionPlayerIndex].cards[actionPlayerCardIndex].type =
                        popCard(shuffled)]

\* handleChallenge without the refund of the action's cost
handleChallengeNoRefund(state, challengerId, actionPlayerId, actionType, rnd) ==
    LET challengerIndex == indexOfId(state.players, challengerId)
        actionPlayerIndex == indexOfId(state.players, actionPlayerId)
        requiredCards == characterActions(actionType)
    IN  IF challengerIndex = -1 \/ actionPlayerIndex = -1 THEN state
        ELSE LET hasClaimedCard ==
                     \E k \in DOMAIN state.players[actionPlayerIndex].cards :
                        /\ ~state.players[actionPlayerIndex].cards[k].revealed
                        /\ state.players[actionPlayerIndex].cards[k].type \in requiredCards
             IN  IF hasClaimedCard
                 THEN LET s1 == loseInfluence(state, challengerIndex)
                          s2 == swapClaimedCard(s1, actionPlayerIndex, requiredCards, rnd)
                      IN  [s2 EXCEPT !.lastAction =
                              [spread(s2.lastAction) EXCEPT !.result = "challenged",
                                                            !.challengeResult = "failed"]]
                 ELSE LET s1 == loseInfluence(state, actionPlayerIndex)
                      IN  [s1 EXCEPT !.lastAction =
                              [spread(s1.lastAction) EXCEPT !.result = "challenged",
                                                            !.challengeResult = "succeeded"]]

handleChallenge(state, challengerId, actionPlayerId, actionType, rnd) ==
    LET challengerIndex == indexOfId(state.players, challengerId)
        actionPlayerIndex == indexOfId(state.players, actionPlayerId)
        requiredCards == characterActions(actionType)
    IN  IF challengerIndex = -1 \/ actionPlayerIndex = -1 THEN state
        ELSE LET hasClaimedCard ==
                     \E k \in DOMAIN state.players[actionPlayerIndex].cards :
                        /\ ~state.players[actionPlayerIndex].cards[k].revealed
                        /\ state.players[actionPlayerIndex].cards[k].type \in requiredCards
             IN  IF hasClaimedCard
                 THEN \* Challenge fails - challenger loses influence
                      LET s1 == loseInfluence(state, challengerIndex)
                          s2 == swapClaimedCard(s1, actionPlayerIndex, requiredCards, rnd)
                      IN  [s2 EXCEPT !.lastAction =
                              [spread(s2.lastAction) EXCEPT !.result = "challenged",
                                                            !.challengeResult = "failed"]]
                 ELSE \* Challenge succeeds - action player loses influence
                      LET s1 == loseInfluence(state, actionPlayerIndex)
                          s2 == [s1 EXCEPT !.lastAction =
                                    [spread(s1.lastAction) EXCEPT !.result = "challenged",
                                                                  !.challengeResult = "succeeded"]]
                          actionCost == actionCosts(actionType)
                      IN  IF actionCost > 0
                          THEN [s2 EXCEPT !.players[actionPlayerIndex].coins = @ + actionCost]
                          ELSE s2

\* handleCounterAction without the test of the blocking card
handleCounterActionAnyCard(state, blockerId, actionType, blockingCard) ==
    [state EXCEPT
       !.currentAction =
           [type |-> "block", player |-> blockerId, blockingCard |-> blockingCard,
            targetAction |-> actionType, challengeable |-> TRUE, blockable |-> FALSE],
       !.lastAction =
           [spread(state.lastAction) EXCEPT !.result = "blocked",
                                            !.blocker = blockerId,
                                            !.blockingCard = blockingCard]]

handleCounterAction(state, blockerId, actionType, blockingCard) ==
    LET validBlockingCards == blockableActions(actionType)
    IN  IF blockingCard \notin validBlockingCards THEN state
        ELSE [state EXCEPT
                !.currentAction =
                    [type |-> "block", player |-> blockerId, blockingCard |-> blockingCard,
                     targetAction |-> actionType, challengeable |-> TRUE, blockable |-> FALSE],
                !.lastAction =
                    [spread(state.lastAction) EXCEPT !.result = "blocked",
                                                     !.blocker = blockerId,
                                                     !.blockingCard = blockingCard]]

resolveBlock(state, blockerId, actionType) ==
    [state EXCEPT
       !.lastAction = [spread(state.lastAction) EXCEPT !.result = "blocked",
                                                       !.finalResult = "blocked"],
       !.currentAction = Null]

\* the replacement loop writing the selected cards into the first slots of the
\* hand, revealed or not
replaceUnrevealedFirstSlots(cards, selectedCards) ==
    [i \in DOMAIN cards |->
        IF i < Len(selectedCards) THEN [cards[i] EXCEPT !.type = selectedCards[i + 1]]
        ELSE cards[i]]

\* "Replace player's non-revealed cards with selected cards": the k-th unrevealed
\* slot, in slot order, takes selectedCards[k]
replaceUnrevealed(cards, selectedCards) ==
    [i \in DOMAIN cards |->
        IF cards[i].revealed THEN cards[i]
        ELSE LET selectedIdx == Cardinality({k \in DOMAIN cards : k < i /\ ~cards[k].revealed})
             IN  [cards[i] EXCEPT !.type = selectedCards[selectedIdx + 1]]]

\* completeExchange without the test that the pending selection belongs to the
\* player who completes it
completeExchangeAnyOwner(state, playerId, selectedCards, rnd) ==
    LET playerIndex == indexOfId(state.players, playerId)
    IN  IF playerIndex = -1 THEN state
        ELSE LET player == state.players[playerIndex]
                 nonRevealedCount == Len(unrevealedTypes(player.cards))
                 currentCardSelection == state.cardSelection
             IN  IF Len(selectedCards) # nonRevealedCount THEN state
                 ELSE IF currentCardSelection = Null THEN state
                 ELSE IF currentCardSelection.reason # "exchange" THEN state
                 ELSE LET remainingCards ==
                              filterNotIncluded(currentCardSelection.validCards, selectedCards)
                      IN  [state EXCEPT
                             !.players[playerIndex].cards = replaceUnrevealed(@, selectedCards),
                             !.deck = shuffleDeck(state.deck \o remainingCards, rnd),
                             !.cardSelection = Null]

completeExchange(state, playerId, selectedCards, rnd) ==
    LET playerIndex == indexOfId(state.players, playerId)
    IN  IF playerIndex = -1 THEN state
        ELSE LET player == state.players[playerIndex]
                 nonRevealedCount == Len(unrevealedTypes(player.cards))
                 currentCardSelection == state.cardSelection
             IN  IF Len(selectedCards) # nonRevealedCount THEN state
                 ELSE IF currentCardSelection = Null THEN state
                 ELSE IF currentCardSelection.playerId # playerId
                         \/ currentCardSelection.reason # "exchange" THEN state
                 ELSE LET remainingCards ==
                              filterNotIncluded(currentCardSelection.validCards, selectedCards)
                      IN  [state EXCEPT
                             !.players[playerIndex].cards = replaceUnrevealed(@, selectedCards),
                             !.deck = shuffleDeck(state.deck \o remainingCards, rnd),
                             !.cardSelection = Null]

-----------------------------------------------------------------------------
(* The queries: canPerformAction, checkGameOver *)

\* the template string `Not enough coins. Needed: ${cost}, Have: ${player.coins}`
notEnoughCoins(cost, coins) ==
    "Not enough coins. Needed: " \o ToString(cost) \o ", Have: " \o ToString(coins)

\* canPerformAction with the mandatory coup starting above 10 coins
canPerformActionAbove10(player, action, target) ==
    LET cost == actionCosts(action)
    IN  IF player.coins < cost
        THEN [allowed |-> FALSE, reason |-> notEnoughCoins(cost, player.coins)]
        ELSE IF player.coins > 10 /\ action # Coup
        THEN [allowed |-> FALSE, reason |-> "With 10 or more coins, you must perform a coup"]
        ELSE IF actionRequiresTarget(action) /\ target = Null
        THEN [allowed |-> FALSE, reason |-> "This action requires a target"]
        ELSE IF target # Null /\ target.eliminated
        THEN [allowed |-> FALSE, reason |-> "Cannot target an eliminated player"]
        ELSE IF target # Null /\ target.id = player.id /\ action # Exchange
        THEN [allowed |-> FALSE, reason |-> "Cannot target yourself with this action"]
        ELSE [allowed |-> TRUE, reason |-> Undefined]

\* canPerformAction with the target checks made before the coin checks
canPerformActionTargetFirst(player, action, target) ==
    LET cost == actionCosts(action)
    IN  IF actionRequiresTarget(action) /\ target = Null
        THEN [allowed |-> FALSE, reason |-> "This action requires a target"]
        ELSE IF target # Null /\ target.eliminated
        THEN [allowed |-> FALSE, reason |-> "Cannot target an eliminated player"]
        ELSE IF player.coins < cost
        THEN [allowed |-> FALSE, reason |-> notEnoughCoins(cost, player.coins)]
        ELSE IF player.coins >= 10 /\ action # Coup
        THEN [allowed |-> FALSE, reason |-> "With 10 or more coins, you must perform a coup"]
        ELSE IF target # Null /\ target.id = player.id /\ action # Exchange
        THEN [allowed |-> FALSE, reason |-> "Cannot target yourself with this action"]
        ELSE [allowed |-> TRUE, reason |-> Undefined]

\* target is a player record, or Null when the caller passes none
canPerformAction(player, action, target) ==
    LET cost == actionCosts(action)
    IN  IF player.coins < cost
        THEN [allowed |-> FALSE, reason |-> notEnoughCoins(cost, player.coins)]
        ELSE IF player.coins >= 10 /\ action # Coup
        THEN [allowed |-> FALSE, reason |-> "With 10 or more coins, you must perform a coup"]
        ELSE IF actionRequiresTarget(action) /\ target = Null
        THEN [allowed |-> FALSE, reason |-> "This action requires a target"]
        ELSE IF target # Null /\ target.eliminated
        THEN [allowed |-> FALSE, reason |-> "Cannot target an eliminated player"]
        ELSE IF target # Null /\ target.id = player.id /\ action # Exchange
        THEN [allowed |-> FALSE, reason |-> "Cannot target yourself with this action"]
        ELSE [allowed |-> TRUE, reason |-> Undefined]

\* getAvailableActions(player, gameState): the actions offered to the player, in
\* the order the code pushes them
getAvailableActions(player, state) ==
    LET playerCards == unrevealedTypes(player.cards)
        includes(t) == \E k \in DOMAIN playerCards : playerCards[k] = t
        pushIf(cond, actions) == IF cond THEN actions ELSE <<>>
    IN  <<Income, ForeignAid>>
        \o pushIf(player.coins >= actionCosts(Coup), <<Coup>>)
        \o pushIf(includes("duke"), <<Tax>>)
        \o pushIf(includes("assassin") /\ player.coins >= actionCosts(Assassinate),
                  <<Assassinate>>)
        \o pushIf(includes("captain"), <<Steal>>)
        \o pushIf(includes("ambassador"), <<Exchange>>)
        \o pushIf(includes("inquisitor"), <<Question, Interrogate>>)
        \o pushIf(/\ \E i \in DOMAIN state.players : state.players[i].allegiance # Undefined
                  /\ player.coins >= actionCosts(Convert),
                  <<Convert>>)

\* winner is the id of the winning player, Undefined when there is none
checkGameOver(state) ==
    LET activePlayers == {i \in DOMAIN state.players : ~state.players[i].eliminated}
        first == Min(activePlayers)
    IN  IF Cardinality(activePlayers) = 1
        THEN [isOver |-> TRUE, winner |-> state.players[first].id]
        ELSE IF /\ Cardinality(activePlayers) > 1
                /\ \A i \in activePlayers :
                      state.players[i].allegiance = state.players[first].allegiance
        THEN [isOver |-> TRUE, winner |-> state.players[first].id]
        ELSE [isOver |-> FALSE, winner |-> Undefined]

-----------------------------------------------------------------------------
(* The engine of lib/game/gameRules.ts: createDeck, initializeGameState and  *)
(* applyAction as that file has them (no Exchange case, no treasury, the     *)
(* turn loop without a counter, game over decided by checkGameOver).        *)

gameRulesDeck ==
    <<"duke", "duke", "duke", "assassin", "assassin", "assassin",
      "captain", "captain", "captain", "contessa", "contessa", "contessa">>

createDeckGameRules(st, rnd) ==
    IF st.expansions.inquisitor
    THEN [k \in DOMAIN gameRulesDeck |->
            IF gameRulesDeck[k] = "ambassador" THEN "inquisitor" ELSE gameRulesDeck[k]]
    ELSE shuffleDeck(gameRulesDeck \o <<"ambassador", "ambassador", "ambassador">>, rnd)

\* settings.startingCoins || 2 with the 2 starting coins the lobby sets
initializeGameStateGameRules(ids, st, rnd, coin) ==
    LET deck == createDeckGameRules(st, rnd)
        n == Len(deck)
        dealt(k) == IF n - k >= 1 THEN deck[n - k] ELSE Undefined
        playersWithCards == [i \in DOMAIN ids |->
            [id |-> ids[i],
             cards |-> [c \in 0 .. 1 |-> [type |-> dealt(2 * i + c), revealed |-> FALSE]],
             coins |-> 2,
             eliminated |-> FALSE,
             allegiance |-> IF st.expansions.reformation
                            THEN (IF coin[i] THEN "loyalist" ELSE "reformist")
                            ELSE Undefined]]
        taken == 2 * Cardinality(DOMAIN ids)
    IN  [status |-> "in_progress",
         deck |-> SubSeq(deck, 1, IF n >= taken THEN n - taken ELSE 0),
         currentPlayerIndex |-> 0,
         players |-> playersWithCards,
         currentAction |-> Null,
         lastAction |-> Null,
         winner |-> "null",
         treasury |-> Undefined,
         cardSelection |-> Null]

\* the switch of applyAction in gameRules.ts
actionEffectsGameRules(newState, playerIndex, playerId, action, targetIndex, targetId) ==
    LET target == targetIndex # -1
    IN
    CASE action = Income ->
           [newState EXCEPT !.players[playerIndex].coins = @ + 1,
                            !.lastAction = logRecord(action, playerId, Undefined, "success")]
      [] action = ForeignAid ->
           [newState EXCEPT !.players[playerIndex].coins = @ + 2,
                            !.lastAction = logRecord(action, playerId, Undefined, "success")]
      [] action = Tax ->
           [newState EXCEPT !.players[playerIndex].coins = @ + 3,
                            !.lastAction = logRecord(action, playerId, Undefined, "success")]
      [] action = Steal /\ target ->
           LET stealAmount == IF newState.players[targetIndex].coins < 2
                              THEN newState.players[targetIndex].coins ELSE 2
               s1 == [newState EXCEPT !.players[targetIndex].coins = @ - stealAmount]
           IN  [s1 EXCEPT !.players[playerIndex].coins = @ + stealAmount,
                          !.lastAction = logRecord(action, playerId, targetId, "success")]
      [] action = Assassinate /\ target ->
           LET s1 == [newState EXCEPT !.players[playerIndex].coins = @ - actionCosts(Assassinate)]
               s2 == loseInfluence(s1, targetIndex)
           IN  [s2 EXCEPT !.lastAction = logRecord(action, playerId, targetId, "success")]
      [] action = Coup /\ target ->
           LET s1 == [newState EXCEPT !.players[playerIndex].coins = @ - actionCosts(Coup)]
               s2 == loseInfluence(s1, targetIndex)
           IN  [s2 EXCEPT !.lastAction = logRecord(action, playerId, targetId, "success")]
      [] action = Convert /\ target
            /\ newState.players[playerIndex].allegiance # Undefined ->
           LET s1 == [newState EXCEPT !.players[playerIndex].coins = @ - actionCosts(Convert)]
           IN  [s1 EXCEPT !.players[targetIndex].allegiance = s1.players[playerIndex].allegiance,
                          !.lastAction = logRecord(action, playerId, targetId, "success")]
      [] OTHER -> newState

\* the value of a call that never returns
Hung == [hung |-> TRUE]

\* while (newState.players[nextPlayerIndex].eliminated): the pair
\* <<nextPlayerIndex, passes>> when the loop ends; once a whole round has found
\* every player eliminated the test can never fail, and the loop is cut with
\* passes > length
RECURSIVE skipEliminatedGameRules(_, _, _)
skipEliminatedGameRules(players, nextPlayerIndex, passes) ==
    LET length == Cardinality(DOMAIN players)
    IN  IF players[nextPlayerIndex].eliminated /\ passes <= length
        THEN skipEliminatedGameRules(players, (nextPlayerIndex + 1) % length, passes + 1)
        ELSE <<nextPlayerIndex, passes>>

\* "Move to next player" and "Check if game is over" of gameRules.ts; Hung when
\* the loop does not end
advanceTurnGameRules(newState, playerIndex) ==
    LET length == Cardinality(DOMAIN newState.players)
        found == skipEliminatedGameRules(newState.players, (playerIndex + 1) % length, 0)
        s1 == [newState EXCEPT !.currentPlayerIndex = found[1]]
    IN  IF found[2] > length THEN Hung
        ELSE LET gameOver == checkGameOver(s1)
             IN  IF gameOver.isOver /\ gameOver.winner # Undefined
                 THEN [s1 EXCEPT !.status = "completed", !.winner = gameOver.winner]
                 ELSE s1

applyActionGameRules(state, playerId, action, targetId) ==
    LET playerIndex == indexOfId(state.players, playerId)
        targetIndex == IF targetId # Undefined THEN indexOfId(state.players, targetId) ELSE -1
    IN  IF playerIndex = -1 THEN state
        ELSE advanceTurnGameRules(
                 actionEffectsGameRules(state, playerIndex, playerId, action,
                                        targetIndex, targetId),
                 playerIndex)

-----------------------------------------------------------------------------
(* The match: the caller creates the state once and stores what each engine *)
(* call returns.  Calls are serialized; any player id, action and target    *)
(* may be passed, whoever's turn it is.  A run makes at most `limit` calls. *)

TargetIds == Ids \cup {Undefined}

\* the character types of the match's deck
typesInPlay ==
    IF settings.expansions.inquisitor THEN CardTypes \ {"ambassador"}
    ELSE CardTypes \ {"inquisitor"}

\* selections a client may send: up to two card types
Selections ==
    {<<>>} \cup {<<a>> : a \in typesInPlay}
           \cup {<<a, b>> : a \in typesInPlay, b \in typesInPlay}

AllSettings ==
    [expansions : [reformation : BOOLEAN, inquisitor : BOOLEAN, anarchy : {FALSE}]]
BaseSettings ==
    [expansions : [reformation : {FALSE}, inquisitor : {FALSE}, anarchy : {FALSE}]]

NoCall == [chain |-> "none"]
NoQuery == [fn |-> "none"]

\* initialize(players, settings) for a lobby whose settings are among settingsSet
InitWith(settingsSet) ==
    /\ settings \in settingsSet
    /\ \E rnd \in Rands, coin \in [PlayerIdx -> BOOLEAN] :
          gameState = initializeGameState([i \in PlayerIdx |-> IdOf(i)], settings, rnd, coin)
    /\ nOps = 0
    /\ hist = [op |-> "initialize", call |-> NoCall, drawn |-> 0]
    /\ ret = NoQuery

Init == InitWith(AllSettings)
InitBase == InitWith(BaseSettings)

Budget(limit) == nOps < limit /\ nOps' = nOps + 1

\* the caller of GamePage: applyAction(gameState, playerId, action, targetId).
\* hist keeps the players as they were before an action that was applied.
ApplyAction(limit, playerId, action, targetId) ==
    /\ Budget(limit)
    /\ gameState' = applyAction(gameState, playerId, action, targetId)
    /\ LET playerIndex == indexOfId(gameState.players, playerId)
           targetIndex == IF targetId # Undefined
                          THEN indexOfId(gameState.players, targetId) ELSE -1
           applied ==
               /\ playerIndex # -1
               /\ \/ action \in {Income, ForeignAid, Tax, Exchange}
                  \/ action \in {Steal, Assassinate, Coup} /\ targetIndex # -1
                  \/ /\ action = Convert /\ targetIndex # -1
                     /\ gameState.players[playerIndex].allegiance # Undefined
       IN  hist' = [op |-> "applyAction",
                    call |-> IF applied
                             THEN [chain |-> "acted", actor |-> playerId, action |-> action,
                                   target |-> gameState'.lastAction.target,
                                   before |-> gameState.players]
                             ELSE NoCall,
                    drawn |-> IF applied /\ action = Exchange
                              THEN Len(spliceHead(gameState.deck, 2))
                              ELSE hist.drawn]
    /\ UNCHANGED <<settings, ret>>

\* challenge of the action just applied, by another player, keeps the history
Challenge(limit, challengerId, actionPlayerId, actionType, rnd) ==
    /\ Budget(limit)
    /\ gameState' = handleChallenge(gameState, challengerId, actionPlayerId, actionType, rnd)
    /\ hist' = [op |-> "challenge",
                call |-> IF /\ hist.call.chain = "acted"
                            /\ hist.call.actor = actionPlayerId
                            /\ hist.call.action = actionType
                            /\ challengerId \in PlayerIds
                            /\ challengerId # actionPlayerId
                         THEN [hist.call EXCEPT !.chain = "challenged"]
                         ELSE NoCall,
                drawn |-> hist.drawn]
    /\ UNCHANGED <<settings, ret>>

\* a block of the action just applied, by another player, keeps the history
CounterBlock(limit, blockerId, actionType, blockingCard) ==
    /\ Budget(limit)
    /\ gameState' = handleCounterAction(gameState, blockerId, actionType, blockingCard)
    /\ hist' = [op |-> "counterBlock",
                call |-> IF /\ hist.call.chain = "acted"
                            /\ hist.call.action = actionType
                            /\ blockingCard \in blockableActions(actionType)
                            /\ blockerId \in PlayerIds
                            /\ blockerId # hist.call.actor
                         THEN [hist.call EXCEPT !.chain = "blocked"]
                         ELSE NoCall,
                drawn |-> hist.drawn]
    /\ UNCHANGED <<settings, ret>>

\* the block just recorded, finalized by its blocker, keeps the history
ResolveUnchallengedBlock(limit, blockerId, actionType) ==
    /\ Budget(limit)
    /\ gameState' = resolveBlock(gameState, blockerId, actionType)
    /\ hist' = [op |-> "resolveBlock",
                call |-> IF /\ hist.call.chain = "blocked"
                            /\ hist.call.action = actionType
                            /\ gameState.currentAction.player = blockerId
                         THEN [hist.call EXCEPT !.chain = "blockResolved"]
                         ELSE NoCall,
                drawn |-> hist.drawn]
    /\ UNCHANGED <<settings, ret>>

CompleteExchange(limit, playerId, selectedCards, rnd) ==
    /\ Budget(limit)
    /\ gameState' = completeExchange(gameState, playerId, selectedCards, rnd)
    /\ hist' = [op |-> "completeExchange", call |-> NoCall,
                drawn |-> IF gameState'.cardSelection = Null THEN 0 ELSE hist.drawn]
    /\ UNCHANGED <<settings, ret>>

EngineCall(limit) ==
    \/ \E playerId \in Ids, action \in ActionType, targetId \in TargetIds :
          ApplyAction(limit, playerId, action, targetId)
    \/ \E challengerId \in Ids, actionPlayerId \in Ids, actionType \in ActionType, rnd \in Rands :
          Challenge(limit, challengerId, actionPlayerId, actionType, rnd)
    \/ \E blockerId \in Ids, actionType \in ActionType, blockingCard \in CardTypes :
          CounterBlock(limit, blockerId, actionType, blockingCard)
    \/ \E blockerId \in Ids, actionType \in ActionType :
          ResolveUnchallengedBlock(limit, blockerId, actionType)
    \/ \E playerId \in Ids, selectedCards \in Selections, rnd \in Rands :
          CompleteExchange(limit, playerId, selectedCards, rnd)

\* every ruleset, short runs
Next == EngineCall(MaxOps)
Spec == Init /\ [][Next]_vars

\* the base game (no expansion), longer runs
NextBase == EngineCall(MaxOpsBase)
SpecBase == InitBase /\ [][NextBase]_vars

-----------------------------------------------------------------------------
(* Long runs of applyAction alone, by and against the players of the match, *)
(* with the engine of gameRules.ts and with the complete engine.            *)

\* the actions and targets passed in the long runs
LongActions == {Income, Steal, Assassinate, Coup}
LongTargets == PlayerIds \cup {Undefined}

InitGameRules ==
    /\ settings \in [expansions : [reformation : {FALSE}, inquisitor : BOOLEAN,
                                   anarchy : {FALSE}]]
    /\ \E rnd \in Rands, coin \in [PlayerIdx -> BOOLEAN] :
          gameState =
              initializeGameStateGameRules([i \in PlayerIdx |-> IdOf(i)], settings, rnd, coin)
    /\ nOps = 0
    /\ hist = [op |-> "initialize", call |-> NoCall, drawn |-> 0]
    /\ ret = NoQuery

\* the caller of GamePage with the engine of gameRules.ts; a call that never
\* returns leaves the caller's state as it is
ApplyActionGameRules(limit, playerId, action, targetId) ==
    /\ Budget(limit)
    /\ LET result == applyActionGameRules(gameState, playerId, action, targetId)
       IN  /\ gameState' = IF result = Hung THEN gameState ELSE result
           /\ hist' = [op |-> "applyAction",
                       call |-> [chain |-> IF result = Hung THEN "hung" ELSE "returned",
                                 actor |-> playerId, action |-> action,
                                 before |-> gameState.players],
                       drawn |-> 0]
    /\ UNCHANGED <<settings, ret>>

NextGameRules ==
    \E playerId \in PlayerIds, action \in LongActions, targetId \in LongTargets :
       ApplyActionGameRules(MaxOpsLong, playerId, action, targetId)

SpecGameRules == InitGameRules /\ [][NextGameRules]_vars

NextLong ==
    \E playerId \in PlayerIds, action \in LongActions, targetId \in LongTargets :
       ApplyAction(MaxOpsLong, playerId, action, targetId)

SpecLong == InitBase /\ [][NextLong]_vars

\* the income actions, the ones that draw on the treasury
TreasuryActions == {Income, ForeignAid, Tax}

NextTreasury ==
    \E playerId \in PlayerIds, action \in TreasuryActions :
       ApplyAction(MaxOpsTreasury, playerId, action, Undefined)

SpecTreasury == InitBase /\ [][NextTreasury]_vars

-----------------------------------------------------------------------------
(* The queries.  canPerformAction and checkGameOver read a state and change *)
(* nothing; the state they are asked about is any state of a match: the    *)
(* first player with up to MaxCoins coins, the others with the 2 they start *)
(* with, players eliminated or not, with or without allegiances.            *)

InitQuery ==
    /\ settings \in [expansions : [reformation : BOOLEAN, inquisitor : {FALSE},
                                   anarchy : {FALSE}]]
    /\ \E coin \in [PlayerIdx -> BOOLEAN],
          coins \in {c \in [PlayerIdx -> 0 .. MaxCoins] :
                        \A i \in PlayerIdx \ {0} : c[i] = 2},
          out \in [PlayerIdx -> BOOLEAN] :
          LET s0 == initializeGameState([i \in PlayerIdx |-> IdOf(i)], settings, 0, coin)
          IN  gameState =
                [s0 EXCEPT !.players = [i \in PlayerIdx |->
                    [s0.players[i] EXCEPT
                        !.coins = coins[i],
                        !.eliminated = out[i],
                        !.cards = [c \in 0 .. 1 |-> [@[c] EXCEPT !.revealed = out[i]]]]]]
    /\ nOps = 0
    /\ hist = [op |-> "initialize", call |-> NoCall, drawn |-> 0]
    /\ ret = NoQuery

\* validateAction: canPerformAction(player, action, target) for a player of the
\* match and a target that is a player of the match or absent
QueryCanPerformAction(playerIndex, action, targetIndex) ==
    /\ LET player == gameState.players[playerIndex]
           target == IF targetIndex = -1 THEN Null ELSE gameState.players[targetIndex]
       IN  ret' = [fn |-> "canPerformAction", player |-> player, action |-> action,
                   target |-> target, result |-> canPerformAction(player, action, target)]
    /\ UNCHANGED <<gameState, settings, nOps, hist>>

\* isGameOver: checkGameOver(gameState)
QueryCheckGameOver ==
    /\ ret' = [fn |-> "checkGameOver", result |-> checkGameOver(gameState)]
    /\ UNCHANGED <<gameState, settings, nOps, hist>>

\* listAvailableActions: getAvailableActions(player, gameState) for a player of
\* the match
QueryGetAvailableActions(playerIndex) ==
    /\ ret' = [fn |-> "getAvailableActions", player |-> gameState.players[playerIndex],
               result |-> getAvailableActions(gameState.players[playerIndex], gameState)]
    /\ UNCHANGED <<gameState, settings, nOps, hist>>

NextQuery ==
    \/ \E playerIndex \in PlayerIdx, action \in ActionType, targetIndex \in PlayerIdx \cup {-1} :
          QueryCanPerformAction(playerIndex, action, targetIndex)
    \/ QueryCheckGameOver
    \/ \E playerIndex \in PlayerIdx : QueryGetAvailableActions(playerIndex)

SpecQuery == InitQuery /\ [][NextQuery]_vars

-----------------------------------------------------------------------------
(* Properties *)

players == gameState.players
activePlayers == {i \in DOMAIN players : ~players[i].eliminated}

\* C1: in every reachable state every hand has exactly 2 cards, and the deck, the
\* hands (2 per player) and the cards a pending exchange drew add up to 15.
C1_CardCount ==
    /\ \A i \in DOMAIN players : Cardinality(DOMAIN players[i].cards) = 2
    /\ Len(gameState.deck) + 2 * Cardinality(DOMAIN players) + hist.drawn = 15

\* C2: in every reachable state every player's coins are >= 0.
C2_CoinsNonNegative ==
    \A i \in DOMAIN players : players[i].coins >= 0

\* C3: once a player's eliminated flag is true it is true in every later state:
\* no engine call takes a player from eliminated to not eliminated.
C3_EliminatedMonotonic ==
    [][\A i \in DOMAIN players :
          players[i].eliminated => gameState'.players[i].eliminated]_vars

\* C3 witness: an action was applied in a state where a player was already
\* eliminated, and that player is eliminated after it.
C3_Witness ==
    /\ hist.call.chain = "acted"
    /\ \E i \in DOMAIN players : hist.call.before[i].eliminated /\ players[i].eliminated

\* C4: after a blockable action by A, a block of it by another player and the
\* block's resolution without a challenge, A's coins and the target's coins,
\* cards and eliminated flag are what they were before the action.
C4_BlockedActionHasNoEffect ==
    hist.call.chain = "blockResolved" =>
        LET before == hist.call.before
        IN  \A i \in DOMAIN players :
               /\ players[i].id = hist.call.actor => players[i].coins = before[i].coins
               /\ players[i].id = hist.call.target =>
                     /\ players[i].coins = before[i].coins
                     /\ players[i].cards = before[i].cards
                     /\ players[i].eliminated = before[i].eliminated

\* C5: after a character-claiming action by A and a challenge of it that succeeds,
\* every player's coins, and the cards of every player but A, are what they were
\* before the action.
C5_ChallengedActionCancelled ==
    ( /\ hist.call.chain = "challenged"
      /\ hist.call.action \in {Tax, Steal, Assassinate, Exchange}
      /\ gameState.lastAction.challengeResult = "succeeded" ) =>
        LET before == hist.call.before
        IN  \A i \in DOMAIN players :
               /\ players[i].coins = before[i].coins
               /\ players[i].id # hist.call.actor => players[i].cards = before[i].cards

\* the game-over rule of the specification: one player left, or several players
\* left who share one allegiance that is not null
gameOverRule ==
    \/ Cardinality(activePlayers) = 1
    \/ /\ Cardinality(activePlayers) > 1
       /\ \E side \in {"loyalist", "reformist"} :
             \A i \in activePlayers : players[i].allegiance = side

\* C6: checkGameOver answers over=true exactly when the game-over rule holds, with
\* the one remaining player as the winner when there is one.
C6_GameOverRule ==
    ret.fn = "checkGameOver" =>
        /\ ret.result.isOver <=> gameOverRule
        /\ Cardinality(activePlayers) = 1 =>
              \A i \in activePlayers : ret.result.winner = players[i].id

\* C7: after every applyAction that applies an action, status is 'completed' with
\* the winner set if the game-over rule holds for the new state, and 'in_progress'
\* without a winner otherwise.
C7_StatusFollowsGameOver ==
    (hist.op = "applyAction" /\ hist.call.chain = "acted") =>
        IF gameOverRule
        THEN gameState.status = "completed" /\ gameState.winner # "null"
        ELSE gameState.status = "in_progress" /\ gameState.winner = "null"

\* C8: a call of applyAction that canPerformAction rejects for the same actor,
\* action and target (a target is passed only to the actions that take one)
\* returns the state it was given.
C8_RejectedActionLeavesState ==
    [][\A playerId \in PlayerIds, action \in ActionType, targetId \in TargetIds :
          LET player == players[indexOfId(players, playerId)]
              target == IF targetId \in PlayerIds
                        THEN players[indexOfId(players, targetId)] ELSE Null
          IN  ( /\ hist'.op = "applyAction"
                /\ actionRequiresTarget(action) \/ targetId = Undefined
                /\ gameState' = applyAction(gameState, playerId, action, targetId)
                /\ ~canPerformAction(player, action, target).allowed )
              => gameState' = gameState]_vars

\* C9: for a player with 10 or more coins, every action but Coup and every target,
\* canPerformAction answers allowed=false.
C9_MandatoryCoup ==
    ( /\ ret.fn = "canPerformAction"
      /\ ret.player.coins >= 10
      /\ ret.action # Coup ) => ret.result.allowed = FALSE

\* C9 witness: a player with 10 or more coins asked for an action other than Coup
\* that costs nothing, against another player who is not eliminated.
C9_Witness ==
    /\ ret.fn = "canPerformAction"
    /\ ret.player.coins >= 10
    /\ ret.action = Steal
    /\ ret.target # Null
    /\ ret.target.id # ret.player.id
    /\ ~ret.target.eliminated
    /\ ~ret.result.allowed

\* C10: canPerformAction answers with the first check that fails, in the order
\* coins, mandatory coup, target present, target not eliminated, no self-target
\* (Exchange excepted), and allows the action when none fails; 2 coins and
\* Assassinate give "Not enough coins. Needed: 3, Have: 2" whatever the target.
C10_CheckOrder ==
    ret.fn = "canPerformAction" =>
        LET p == ret.player
            a == ret.action
            t == ret.target
            r == ret.result
            cost == IF a = Assassinate THEN 3 ELSE IF a = Coup THEN 7
                    ELSE IF a = Convert THEN 1 ELSE 0
            poor == p.coins < cost
            mustCoup == p.coins >= 10 /\ a # Coup
            noTarget == t = Null /\ a \in {Coup, Assassinate, Steal, Question,
                                            Interrogate, Convert}
            deadTarget == t # Null /\ t.eliminated
            selfTarget == t # Null /\ t.id = p.id /\ a # Exchange
        IN  /\ poor => ~r.allowed /\ r.reason = notEnoughCoins(cost, p.coins)
            /\ (~poor /\ mustCoup) =>
                  ~r.allowed /\ r.reason = "With 10 or more coins, you must perform a coup"
            /\ (~poor /\ ~mustCoup /\ noTarget) =>
                  ~r.allowed /\ r.reason = "This action requires a target"
            /\ (~poor /\ ~mustCoup /\ ~noTarget /\ deadTarget) =>
                  ~r.allowed /\ r.reason = "Cannot target an eliminated player"
            /\ (~poor /\ ~mustCoup /\ ~noTarget /\ ~deadTarget /\ selfTarget) =>
                  ~r.allowed /\ r.reason = "Cannot target yourself with this action"
            /\ (~poor /\ ~mustCoup /\ ~noTarget /\ ~deadTarget /\ ~selfTarget) => r.allowed
            /\ (p.coins = 2 /\ a = Assassinate) =>
                  r.reason = "Not enough coins. Needed: 3, Have: 2"

\* C10 witness: a player with 2 coins asked for Assassinate against an eliminated
\* player is told about the coins, not about the target.
C10_Witness ==
    /\ ret.fn = "canPerformAction"
    /\ ret.player.coins = 2
    /\ ret.action = Assassinate
    /\ ret.target # Null
    /\ ret.target.eliminated
    /\ ret.result = [allowed |-> FALSE, reason |-> "Not enough coins. Needed: 3, Have: 2"]

\* the seat the turn passes to: the first player who is not eliminated, going
\* round the table from the seat after prev
nextSeat(ps, prev) ==
    LET n == Cardinality(DOMAIN ps)
        steps == {k \in 1 .. n : ~ps[(prev + k) % n].eliminated}
    IN  (prev + Min(steps)) % n

\* C11: after every applyAction that applies an action other than Exchange and
\* does not end the game, currentPlayerIndex is the first player not eliminated
\* going round the table from the seat after the previous currentPlayerIndex.
C11_TurnAdvance ==
    [][( /\ hist'.op = "applyAction"
         /\ hist'.call.chain = "acted"
         /\ hist'.call.action # Exchange
         /\ gameState'.status # "completed"
         /\ \E i \in DOMAIN gameState'.players : ~gameState'.players[i].eliminated )
       => gameState'.currentPlayerIndex =
              nextSeat(gameState'.players, gameState.currentPlayerIndex)]_vars

\* the number of revealed cards over all the players
revealedCount(ps) ==
    Cardinality({<<i, k>> \in (DOMAIN ps) \X (0 .. 1) : ps[i].cards[k].revealed})

\* the unrevealed slots of a hand
openSlots(cards) == {k \in DOMAIN cards : ~cards[k].revealed}

\* C12: after applyAction applies Assassinate or Coup, a target that had exactly
\* one unrevealed card is eliminated and one more card is revealed over all the
\* players; a target that had two has its first card revealed, its second card
\* not, and is not eliminated.
C12_InfluenceLoss ==
    ( /\ hist.op = "applyAction"
      /\ hist.call.chain = "acted"
      /\ hist.call.action \in {Assassinate, Coup} ) =>
        LET before == hist.call.before
            t == indexOfId(players, hist.call.target)
        IN  /\ Cardinality(openSlots(before[t].cards)) = 1 =>
                  /\ players[t].eliminated
                  /\ revealedCount(players) = revealedCount(before) + 1
            /\ Cardinality(openSlots(before[t].cards)) = 2 =>
                  /\ players[t].cards[0].revealed
                  /\ ~players[t].cards[1].revealed
                  /\ ~players[t].eliminated
                  /\ revealedCount(players) = revealedCount(before) + 1

\* C12 witness: a Coup or Assassinate was applied to a target that had one
\* unrevealed card left, and the target is eliminated.
C12_Witness ==
    /\ hist.op = "applyAction"
    /\ hist.call.chain = "acted"
    /\ hist.call.action \in {Assassinate, Coup}
    /\ LET t == indexOfId(players, hist.call.target)
       IN  /\ Cardinality(openSlots(hist.call.before[t].cards)) = 1
           /\ players[t].eliminated

\* a hand after it lost an influence: the first unrevealed card, if there is one,
\* is revealed and every other card is as it was
lostOne(cardsBefore, cardsAfter) ==
    LET open == openSlots(cardsBefore)
    IN  IF open = {} THEN cardsAfter = cardsBefore
        ELSE cardsAfter = [cardsBefore EXCEPT ![Min(open)].revealed = TRUE]

\* a player is eliminated after a call iff they were before it or every card of
\* their hand is now revealed
flagFollows(playerBefore, playerAfter) ==
    playerAfter.eliminated <=>
        (playerBefore.eliminated \/ openSlots(playerAfter.cards) = {})

\* the player at index a holds an unrevealed card of a character the action claims
holdsClaim(ps, a, actionType) ==
    \E k \in openSlots(ps[a].cards) :
        ps[a].cards[k].type \in
            (CASE actionType \in {Tax, Embezzle} -> {"duke"}
               [] actionType = Assassinate -> {"assassin"}
               [] actionType = Steal -> {"captain"}
               [] actionType = Exchange -> {"ambassador"}
               [] actionType \in {Question, Interrogate} -> {"inquisitor"}
               [] OTHER -> {})

\* C13: a challenge by one player of another player who holds an unrevealed card
\* of the claimed character fails: the challenger's first unrevealed card is
\* revealed (the challenger is eliminated if it was the last), the accused has
\* the same cards revealed as before, every hand has 2 cards, the deck has the
\* size it had and the accused has the coins they had.
C13_ChallengeFails ==
    [][hist'.op = "challenge" =>
        \A c \in PlayerIdx : \A a \in PlayerIdx \ {c}, actionType \in ActionType, rnd \in Rands :
          ( /\ holdsClaim(players, a, actionType)
            /\ gameState' = handleChallenge(gameState, IdOf(c), IdOf(a), actionType, rnd) ) =>
              LET after == gameState'.players
              IN  /\ lostOne(players[c].cards, after[c].cards)
                  /\ flagFollows(players[c], after[c])
                  /\ \A k \in 0 .. 1 : after[a].cards[k].revealed = players[a].cards[k].revealed
                  /\ \A i \in DOMAIN after : DOMAIN after[i].cards = 0 .. 1
                  /\ Len(gameState'.deck) = Len(gameState.deck)
                  /\ after[a].coins = players[a].coins]_vars

\* C13 witness: the action just applied was challenged by another player, the
\* challenge failed and the other player has one card revealed.
C13_Witness ==
    /\ hist.op = "challenge"
    /\ hist.call.chain = "challenged"
    /\ gameState.lastAction.challengeResult = "failed"
    /\ \E c \in DOMAIN players :
          /\ players[c].id # hist.call.actor
          /\ openSlots(hist.call.before[c].cards) = {0, 1}
          /\ openSlots(players[c].cards) = {1}

\* C14: a challenge by one player of another player who holds no unrevealed card
\* of the claimed character succeeds: the accused's first unrevealed card is
\* revealed (the accused is eliminated if it was the last), the challenger's cards
\* and coins and the deck are as before, and the accused's coins grow by the cost
\* of the action (3 for Assassinate, 7 for Coup, 1 for Convert, 0 otherwise).
C14_ChallengeSucceeds ==
    [][hist'.op = "challenge" =>
        \A c \in PlayerIdx : \A a \in PlayerIdx \ {c}, actionType \in ActionType, rnd \in Rands :
          ( /\ ~holdsClaim(players, a, actionType)
            /\ gameState' = handleChallenge(gameState, IdOf(c), IdOf(a), actionType, rnd) ) =>
              LET after == gameState'.players
                  cost == IF actionType = Assassinate THEN 3 ELSE IF actionType = Coup THEN 7
                          ELSE IF actionType = Convert THEN 1 ELSE 0
              IN  /\ lostOne(players[a].cards, after[a].cards)
                  /\ flagFollows(players[a], after[a])
                  /\ after[c].cards = players[c].cards
                  /\ after[c].coins = players[c].coins
                  /\ gameState'.deck = gameState.deck
                  /\ after[a].coins = players[a].coins + cost]_vars

\* C14 witness: an Assassinate just applied was challenged by another player, the
\* challenge succeeded, and the assassin has the coins they had before paying.
C14_Witness ==
    /\ hist.op = "challenge"
    /\ hist.call.chain = "challenged"
    /\ hist.call.action = Assassinate
    /\ gameState.lastAction.challengeResult = "succeeded"
    /\ \E a \in DOMAIN players :
          /\ players[a].id = hist.call.actor
          /\ players[a].coins = hist.call.before[a].coins
          /\ Cardinality(openSlots(players[a].cards))
                = Cardinality(openSlots(hist.call.before[a].cards)) - 1

\* C15: when a challenge eliminates a player so that exactly one player is left
\* not eliminated, the state it returns has status 'completed' and that player
\* as the winner.
C15_ChallengeEndsGame ==
    [][( /\ hist'.op = "challenge"
         /\ Cardinality(activePlayers) > 1
         /\ Cardinality({i \in DOMAIN gameState'.players :
                            ~gameState'.players[i].eliminated}) = 1 )
       => /\ gameState'.status = "completed"
          /\ \A i \in DOMAIN gameState'.players :
                ~gameState'.players[i].eliminated =>
                    gameState'.winner = gameState'.players[i].id]_vars

\* C16: a challenge of an action that claims no character (Coup, Income,
\* ForeignAid, Convert), by one player against another, leaves every player's
\* cards and coins as they were.
C16_Unchallengeable ==
    [][hist'.op = "challenge" =>
        \A c \in PlayerIdx : \A a \in PlayerIdx \ {c},
           actionType \in {Coup, Income, ForeignAid, Convert}, rnd \in Rands :
             gameState' = handleChallenge(gameState, IdOf(c), IdOf(a), actionType, rnd)
             => \A i \in DOMAIN players :
                   /\ gameState'.players[i].cards = players[i].cards
                   /\ gameState'.players[i].coins = players[i].coins]_vars

\* C17: applyAction(Exchange) by a player takes 2 cards from the head of the deck,
\* records a pending selection for that player whose pool is the 2 cards drawn
\* followed by the types of the player's unrevealed cards, and leaves
\* currentPlayerIndex and every player's coins as they were.
C17_ExchangePending ==
    [][( /\ hist'.op = "applyAction"
         /\ hist'.call.chain = "acted"
         /\ hist'.call.action = Exchange
         /\ Len(gameState.deck) >= 2 )
       => LET a == indexOfId(players, hist'.call.actor)
          IN  /\ gameState'.deck = SubSeq(gameState.deck, 3, Len(gameState.deck))
              /\ gameState'.cardSelection # Null
              /\ gameState'.cardSelection.playerId = hist'.call.actor
              /\ gameState'.cardSelection.validCards =
                    SubSeq(gameState.deck, 1, 2) \o unrevealedTypes(players[a].cards)
              /\ gameState'.currentPlayerIndex = gameState.currentPlayerIndex
              /\ \A i \in DOMAIN players :
                    gameState'.players[i].coins = players[i].coins]_vars

\* the number of elements of the sequence s equal to t
countIn(s, t) == Cardinality({k \in DOMAIN s : s[k] = t})

\* every card of the sequence sel is taken from the pool, copy for copy
fromPool(sel, pool) == \A t \in CardTypes : countIn(sel, t) <= countIn(pool, t)

\* C18: when completeExchange accepts a selection taken from the pool of the
\* pending exchange, the deck has the size it had before applyAction(Exchange)
\* drew from it, and the player has as many unrevealed cards as before.
C18_ExchangeKeepsDeckSize ==
    [][( /\ hist'.op = "completeExchange"
         /\ gameState.cardSelection # Null
         /\ gameState'.cardSelection = Null )
       => LET a == indexOfId(players, gameState.cardSelection.playerId)
              kept == unrevealedTypes(gameState'.players[a].cards)
          IN  fromPool(kept, gameState.cardSelection.validCards) =>
                 /\ Len(gameState'.deck) = Len(gameState.deck) + hist.drawn
                 /\ Len(kept) = Len(unrevealedTypes(players[a].cards))]_vars

\* the cards of a pending exchange that came from the deck: the head of its pool
drawnPending ==
    IF gameState.cardSelection = Null THEN <<>>
    ELSE SubSeq(gameState.cardSelection.validCards, 1, hist.drawn)

\* the copies of the character t in the deck, in the hands (revealed or not) and
\* among the cards a pending exchange drew
copiesOf(t) ==
    countIn(gameState.deck, t)
    + Cardinality({<<i, k>> \in (DOMAIN players) \X (0 .. 1) : players[i].cards[k].type = t})
    + countIn(drawnPending, t)

\* C19: in every reachable state each character of the match has exactly 3 copies
\* over the deck, the hands and the cards a pending exchange drew.
C19_ThreeOfEach ==
    \A t \in typesInPlay : copiesOf(t) = 3

\* C20: a call of completeExchange that changes the state was made by a player of
\* the match for whom an exchange selection was pending, with as many selected
\* cards as that player has unrevealed cards, and it clears the pending selection
\* (any other call returns the state it was given).
C20_CompleteExchangeGuards ==
    [][( /\ hist'.op = "completeExchange"
         /\ gameState' # gameState )
       => /\ gameState'.cardSelection = Null
          /\ \A playerId \in Ids, selectedCards \in Selections, rnd \in Rands :
                gameState' = completeExchange(gameState, playerId, selectedCards, rnd)
                => /\ playerId \in PlayerIds
                   /\ gameState.cardSelection # Null
                   /\ gameState.cardSelection.playerId = playerId
                   /\ Len(selectedCards) =
                         Cardinality(openSlots(players[indexOfId(players, playerId)].cards))]_vars

\* C20 witness: the exchange last applied has been completed: the last action
\* applied is an Exchange, the last call is completeExchange and no selection is
\* pending.
C20_Witness ==
    /\ hist.op = "completeExchange"
    /\ gameState.lastAction # Null
    /\ gameState.lastAction.type = Exchange
    /\ gameState.cardSelection = Null

\* the pairs of an action and a card that blocks it
blockingPairs ==
    {<<ForeignAid, "duke">>, <<Assassinate, "contessa">>,
     <<Steal, "ambassador">>, <<Steal, "captain">>}

\* C21: a counterBlock call changes the state only when the card is in the
\* blocking set of the action (Duke for ForeignAid, Contessa for Assassinate,
\* Ambassador or Captain for Steal), and a call with such a pair leaves a pending
\* block that names the blocker, the card and the action, challengeable and not
\* blockable; a call with any other pair returns the state it was given.
C21_CounterBlockValidates ==
    [][hist'.op = "counterBlock" =>
        /\ gameState' # gameState =>
              \A blockerId \in Ids, actionType \in ActionType, blockingCard \in CardTypes :
                 gameState' = handleCounterAction(gameState, blockerId, actionType, blockingCard)
                 => <<actionType, blockingCard>> \in blockingPairs
        /\ \A blockerId \in Ids, pair \in blockingPairs :
              gameState' = handleCounterAction(gameState, blockerId, pair[1], pair[2])
              => gameState'.currentAction =
                    [type |-> "block", player |-> blockerId, blockingCard |-> pair[2],
                     targetAction |-> pair[1], challengeable |-> TRUE, blockable |-> FALSE]]_vars

\* C21 witness: the Foreign Aid just applied was blocked by another player with a
\* Duke, and the block is pending.
C21_Witness ==
    /\ hist.op = "counterBlock"
    /\ hist.call.chain = "blocked"
    /\ hist.call.action = ForeignAid
    /\ gameState.currentAction # Null
    /\ gameState.currentAction.blockingCard = "duke"
    /\ gameState.currentAction.targetAction = ForeignAid
    /\ gameState.currentAction.player # hist.call.actor

\* C22: a call of applyAction with an actor id that no player has, or with a
\* target id that no player has for an action that needs a target, returns the
\* state it was given.
C22_UnknownIdsLeaveState ==
    [][hist'.op = "applyAction" =>
        \A playerId \in Ids, action \in ActionType, targetId \in Ids :
           ( /\ \/ playerId = UnknownId
                \/ /\ targetId = UnknownId
                   /\ action \in {Coup, Assassinate, Steal, Question, Interrogate, Convert}
             /\ gameState' = applyAction(gameState, playerId, action, targetId) )
           => gameState' = gameState]_vars

\* C23: right after initialize, under either value of settings.expansions.inquisitor,
\* the deck and the hands hold 15 cards: 3 each of Duke, Assassin, Captain and
\* Contessa, and 3 Ambassadors and no Inquisitor (inquisitor off) or 3 Inquisitors
\* and no Ambassador (inquisitor on); every player has 2 unrevealed cards and is
\* not eliminated, status is 'in_progress' and currentPlayerIndex is 0.
C23_InitialDeal ==
    hist.op = "initialize" =>
        /\ Len(gameState.deck) + 2 * Cardinality(DOMAIN players) = 15
        /\ \A t \in {"duke", "assassin", "captain", "contessa"} : copiesOf(t) = 3
        /\ copiesOf("ambassador") = IF settings.expansions.inquisitor THEN 0 ELSE 3
        /\ copiesOf("inquisitor") = IF settings.expansions.inquisitor THEN 3 ELSE 0
        /\ \A i \in DOMAIN players :
              /\ openSlots(players[i].cards) = {0, 1}
              /\ ~players[i].eliminated
        /\ gameState.status = "in_progress"
        /\ gameState.currentPlayerIndex = 0

\* the state has a pending block of the action by the blocker with the card
blockPending(state, blockerId, actionType, blockingCard) ==
    /\ state.currentAction # Null
    /\ state.currentAction.player = blockerId
    /\ state.currentAction.targetAction = actionType
    /\ state.currentAction.blockingCard = blockingCard

\* C24: a counterBlock of Steal by a player of the match with an Inquisitor is
\* accepted (leaves that block pending) if and only if the inquisitor expansion
\* is active; with a Captain it is always accepted, and with an Ambassador it is
\* accepted whenever the deck of the match has Ambassadors.
C24_InquisitorBlocksSteal ==
    [][hist'.op = "counterBlock" =>
        \A blockerId \in PlayerIds :
           /\ gameState' = handleCounterAction(gameState, blockerId, Steal, "inquisitor")
              => ( blockPending(gameState', blockerId, Steal, "inquisitor")
                   <=> settings.expansions.inquisitor )
           /\ gameState' = handleCounterAction(gameState, blockerId, Steal, "captain")
              => blockPending(gameState', blockerId, Steal, "captain")
           /\ ( /\ ~settings.expansions.inquisitor
                /\ gameState' = handleCounterAction(gameState, blockerId, Steal, "ambassador") )
              => blockPending(gameState', blockerId, Steal, "ambassador")]_vars

\* C25: when the block of an action by player B with card c is pending and
\* another player challenges B over it, the challenge fails (the challenger loses
\* an influence, B has the same cards revealed) if B holds an unrevealed c, and
\* succeeds (B loses an influence, the challenger's cards are as they were)
\* otherwise.
C25_BlockChallengeJudgedOnCard ==
    [][( /\ hist.call.chain = "blocked"
         /\ hist'.op = "challenge"
         /\ gameState.currentAction # Null )
       => LET block == gameState.currentAction
              b == indexOfId(players, block.player)
              holdsCard == \E k \in openSlots(players[b].cards) :
                              players[b].cards[k].type = block.blockingCard
          IN  \A c \in PlayerIdx \ {b}, rnd \in Rands :
                 gameState' = handleChallenge(gameState, IdOf(c), block.player,
                                              block.targetAction, rnd)
                 => LET after == gameState'.players
                    IN  IF holdsCard
                        THEN /\ lostOne(players[c].cards, after[c].cards)
                             /\ openSlots(after[b].cards) = openSlots(players[b].cards)
                        ELSE /\ lostOne(players[b].cards, after[b].cards)
                             /\ after[c].cards = players[c].cards]_vars

\* C26: applyAction of Income, ForeignAid or Tax adds exactly 1, 2 or 3 to the
\* actor's coins; applyAction of Steal moves min(2, the target's coins) from the
\* target to the actor; each of them leaves the coins of every other player, the
\* cards and the eliminated flag of every player and the deck as they were.
C26_CoinEffects ==
    [][( /\ hist'.op = "applyAction"
         /\ hist'.call.chain = "acted"
         /\ hist'.call.action \in {Income, ForeignAid, Tax, Steal} )
       => LET after == gameState'.players
              a == indexOfId(players, hist'.call.actor)
              t == indexOfId(players, hist'.call.target)
              gain == CASE hist'.call.action = Income -> 1
                        [] hist'.call.action = ForeignAid -> 2
                        [] hist'.call.action = Tax -> 3
                        [] OTHER -> IF players[t].coins < 2 THEN players[t].coins ELSE 2
          IN  /\ hist'.call.action # Steal =>
                    /\ after[a].coins = players[a].coins + gain
                    /\ \A i \in DOMAIN players \ {a} : after[i].coins = players[i].coins
              /\ (hist'.call.action = Steal /\ t # a) =>
                    /\ after[a].coins = players[a].coins + gain
                    /\ after[t].coins = players[t].coins - gain
                    /\ \A i \in DOMAIN players \ {a, t} : after[i].coins = players[i].coins
              /\ (hist'.call.action = Steal /\ t = a) =>
                    \A i \in DOMAIN players : after[i].coins = players[i].coins
              /\ \A i \in DOMAIN players :
                    /\ after[i].cards = players[i].cards
                    /\ after[i].eliminated = players[i].eliminated
              /\ gameState'.deck = gameState.deck]_vars

\* C26 witness: a Steal was applied against another player who had 1 coin, and
\* that coin is now the actor's.
C26_Witness ==
    /\ hist.op = "applyAction"
    /\ hist.call.chain = "acted"
    /\ hist.call.action = Steal
    /\ \E a \in DOMAIN players, t \in DOMAIN players :
          /\ a # t
          /\ players[a].id = hist.call.actor
          /\ players[t].id = hist.call.target
          /\ hist.call.before[t].coins = 1
          /\ players[t].coins = 0
          /\ players[a].coins = hist.call.before[a].coins + 1

\* C27: resolveUnchallengedBlock called when no block is pending returns the
\* state it was given, lastAction included; called on a pending block it sets
\* lastAction's result to 'blocked', clears the pending block and leaves the
\* players, the deck, currentPlayerIndex, status and winner as they were.
C27_ResolveBlockFrame ==
    [][hist'.op = "resolveBlock" =>
        /\ gameState.currentAction = Null => gameState' = gameState
        /\ gameState.currentAction # Null =>
              /\ gameState'.lastAction.result = "blocked"
              /\ gameState'.currentAction = Null
              /\ gameState'.players = gameState.players
              /\ gameState'.deck = gameState.deck
              /\ gameState'.currentPlayerIndex = gameState.currentPlayerIndex
              /\ gameState'.status = gameState.status
              /\ gameState'.winner = gameState.winner]_vars

\* C28: under either value of settings.expansions.inquisitor the deal is not
\* fixed: for the players and settings of an initial state, some value of the
\* random source gives the first player a starting hand other than the one they
\* have.
C28_DealVaries ==
    hist.op = "initialize" =>
        \E rnd \in Rands, coin \in [PlayerIdx -> BOOLEAN] :
           initializeGameState([i \in PlayerIdx |-> IdOf(i)], settings, rnd, coin).players[0].cards
               # players[0].cards

\* C29: in every reachable state, states after the game has completed included,
\* at least one player is not eliminated.
C29_SomeoneLeft ==
    \E i \in DOMAIN players : ~players[i].eliminated

\* C30: every call of applyAction returns: the loop that skips the eliminated
\* players ends within one pass over the players.
C30_SkipLoopEnds ==
    hist.op = "applyAction" => hist.call.chain # "hung"

\* C31: once status is 'completed' it stays 'completed', and every later engine
\* call leaves the winner, every player's coins, cards and eliminated flag, and
\* the deck as they were.
C31_CompletedFrozen ==
    [][gameState.status = "completed" =>
          /\ gameState'.status = "completed"
          /\ gameState'.winner = gameState.winner
          /\ gameState'.deck = gameState.deck
          /\ \A i \in DOMAIN players :
                /\ gameState'.players[i].coins = players[i].coins
                /\ gameState'.players[i].cards = players[i].cards
                /\ gameState'.players[i].eliminated = players[i].eliminated]_vars

\* C32: a call of applyAction that changes the state is made by the player at
\* currentPlayerIndex, and that player is not eliminated; a call by any other
\* player returns the state unchanged.
C32_OnlyOnTurn ==
    [][/\ hist'.op = "applyAction"
       /\ hist'.call.chain = "acted"
       /\ gameState' # gameState
       => LET playerIndex == indexOfId(players, hist'.call.actor)
          IN  /\ playerIndex = gameState.currentPlayerIndex
              /\ ~players[playerIndex].eliminated]_vars

\* C33: in every reachable state with status 'in_progress', currentPlayerIndex
\* is an index of players and the player there is not eliminated, after a
\* challenge as well as after applyAction.
C33_TurnOnLivePlayer ==
    gameState.status = "in_progress" =>
       /\ gameState.currentPlayerIndex \in DOMAIN players
       /\ ~players[gameState.currentPlayerIndex].eliminated

\* C34: in every state reachable from initialize, a player's eliminated flag is
\* true exactly when both of the player's cards are revealed.
C34_EliminatedIffRevealed ==
    \A i \in DOMAIN players :
       players[i].eliminated <=> \A c \in DOMAIN players[i].cards : players[i].cards[c].revealed

\* a challenge has just revealed a player's second card and the player is
\* eliminated, while the other player has lost one card and is still in
C34_Witness ==
    /\ hist.op = "challenge"
    /\ \E i \in DOMAIN players, j \in DOMAIN players :
          /\ players[i].eliminated
          /\ openSlots(players[i].cards) = {}
          /\ ~players[j].eliminated
          /\ Cardinality(openSlots(players[j].cards)) = 1

\* C35: every action that getAvailableActions offers to a player is one that
\* canPerformAction allows for that player, with some player of the match as
\* target when the action requires a target and with no target otherwise; a
\* player with 10 coins or more is offered Coup only.
C35_OfferedIsAllowed ==
    ret.fn = "getAvailableActions" =>
       /\ \A k \in DOMAIN ret.result :
             LET action == ret.result[k]
                 targets == IF actionRequiresTarget(action)
                            THEN {players[j] : j \in DOMAIN players}
                            ELSE {Null}
             IN  \E target \in targets : canPerformAction(ret.player, action, target).allowed
       /\ ret.player.coins >= 10 => ret.result = <<Coup>>

\* C36: the treasury starts at 50 and stays within 0..50; a call of applyAction
\* never raises it; Income, ForeignAid and Tax lower it by 1, 2 and 3 but not
\* below 0, and leave it at 0 once it is 0.
C36_TreasuryNeverGrows ==
    [][hist'.op = "applyAction" =>
          /\ gameState'.treasury \in 0 .. 50
          /\ gameState'.treasury <= gameState.treasury
          /\ \A n \in 1 .. 3 :
                ( /\ hist'.call.chain = "acted"
                  /\ hist'.call.action = CASE n = 1 -> Income [] n = 2 -> ForeignAid
                                           [] n = 3 -> Tax )
                => gameState'.treasury =
                      IF gameState.treasury - n > 0 THEN gameState.treasury - n ELSE 0]_vars

\* C37: a revealed card is frozen: a card slot that is revealed is, after every
\* engine call, still revealed and still of the same character type.
C37_RevealedFrozen ==
    [][\A i \in DOMAIN players : \A c \in DOMAIN players[i].cards :
          players[i].cards[c].revealed =>
             gameState'.players[i].cards[c] = players[i].cards[c]]_vars

\* completeExchange has just replaced the hand of a player who had the first
\* card revealed: that slot is still revealed, the other slot is the one written
C37_Witness ==
    /\ hist.op = "completeExchange"
    /\ gameState.lastAction # Null
    /\ gameState.lastAction.type = Exchange
    /\ gameState.cardSelection = Null
    /\ \E a \in DOMAIN players :
          /\ players[a].id = gameState.lastAction.player
          /\ players[a].cards[0].revealed
          /\ ~players[a].cards[1].revealed

====
